---- MODULE Spec2Model ----
(***************************************************************************)
(* Session Store (AuthProvider) of the care-coordination client: the auth  *)
(* state listener, the Session Store operations and the identity provider  *)
(* and profile store they talk to.                                         *)
(*                                                                         *)
(* Every `await` of the source is a suspension point: the part of a        *)
(* handler between two awaits is one atomic action, and the backend call   *)
(* takes effect at the step that resolves it.  React state setters called  *)
(* after the provider unmounted do not change the state; the model records *)
(* that a listener callback called them (cbSetAfterUnmount).               *)
(***************************************************************************)
EXTENDS Integers, Sequences, FiniteSets, TLC

\* ---------------------------------------------------------------- bounds
MaxOps == 2        \* Session Store operations started in one behaviour
MaxDocs == 2       \* notification documents created in one behaviour
MaxSubs == 2       \* live queries opened in one behaviour
MaxPresses == 2    \* presses of the Register button in one behaviour

\* ------------------------------------------------------------ value sets
Ids == {"a", "b"}
Roles == {"patient", "therapist"}

NoUser == [id |-> "none", role |-> "none", emailVerified |-> FALSE]
NoSession == [uid |-> "none", emailVerified |-> FALSE]
NoDoc == [exists |-> FALSE, role |-> "none", emailVerified |-> FALSE]
NoError == "null"

VARIABLES
  user, loading, error, isInitialized, isPendingVerification,  \* useState
  mounted,        \* AuthProvider is mounted
  listener,       \* "none" | "armed" | "failed" | "closed"
  closurePending, \* isPendingVerification as bound in the listener closure
  session,        \* auth.currentUser at the identity provider
  accounts,       \* ids that have a provider account
  verified,       \* ids whose e-mail the provider has verified
  profiles,       \* users/{id} documents of the profile store
  events,         \* session events emitted, not yet delivered to the listener
  lastReported,   \* the session most recently delivered to the listener
  cbs,            \* listener callbacks suspended at an await
  op,             \* the Session Store operation in flight
  lastOutcome,    \* how the operation that ended in the last step ended:
                  \* "none" | "returned" | "true" | "threw"
  lastEnd,        \* which operation ended in the last step, and the error
                  \* it threw
  lastCb,         \* the listener callback that ended in the last step
  cbSetAfterUnmount, \* a callback called state setters after unmount
  nOps,           \* Session Store operations started so far
  variant,        \* which RootLayoutNav is built: 1 (isMounted) | 2 (timer)
  isMounted,      \* RootLayoutNav is ready: isMounted of the first variant,
                  \* its own isInitialized (the 200 ms timer) of the second
  segments,       \* useSegments(): the segments of the current route
  effectDue,      \* a dependency of the navigation effect changed
  redirect,       \* the last run of the navigation effect
  hops,           \* redirects issued since the route was last chosen by
                  \* the user
  feedVariant,    \* which NotificationProvider is built: "ref"
                  \* (NotificationContext.tsx) | "local" (part_004)
  feedMounted,    \* NotificationProvider is mounted
  notifications,  \* useState: the mirror
  feedLoading,    \* useState: loading of NotificationProvider
  effectUser,     \* user?.id of the last run of the subscription effect
  unsubscribeRef, \* unsubscribeRef.current: a live query, or 0 for null
  cleanup,        \* the cleanup the last run of the effect returned
  subs,           \* the live queries opened so far
  store,          \* the notifications collection of the backend
  mark,           \* the markAsRead / markAllAsRead call in flight
  lastMark,       \* the mark call that ended in the last step; a committed
                  \* markAllAsRead stays until the next snapshot, which
                  \* turns it into kind "delivered" for one step
  register,       \* RegisterScreen: its useState values, the position of
                  \* handleRegister, the signUp calls it made and the route
  app             \* the root App: its useState values, the position of
                  \* initializeApp and the exports of the backend module

vars == <<user, loading, error, isInitialized, isPendingVerification, mounted,
          listener, closurePending, session, accounts, verified, profiles,
          events, lastReported, cbs, op, lastOutcome, lastEnd, lastCb,
          cbSetAfterUnmount, nOps, variant, isMounted, segments, effectDue,
          redirect, hops, feedVariant, feedMounted, notifications,
          feedLoading, effectUser, unsubscribeRef, cleanup, subs, store,
          mark, lastMark, register, app>>

stateVars == <<user, loading, error, isInitialized, isPendingVerification>>
navVars == <<variant, isMounted, segments, effectDue, redirect, hops>>
feedVars == <<feedVariant, feedMounted, notifications, feedLoading,
              effectUser, unsubscribeRef, cleanup, subs, store, mark,
              lastMark>>
providerVars == <<session, accounts, verified, profiles>>
screenVars == <<register, app>>

Idle == [kind |-> "idle", pc |-> "idle", uid |-> "none", role |-> "none",
         calls |-> <<>>]
NoCb == [fu |-> NoSession, path |-> "none", pendingAtInvoke |-> FALSE,
         calls |-> <<>>, logged |-> FALSE]

\* No listener callback, no operation ends in this step.
NoCbEnd == lastCb' = NoCb
NoEnd == [kind |-> "none", thrown |-> "none"]
NoOpEnd == lastOutcome' = "none" /\ lastEnd' = NoEnd

\* A state setter: React drops an update of an unmounted component.
Set(old, new) == IF mounted THEN new ELSE old

\* The session object the provider hands out for account id.
SessionOf(id) == [uid |-> id, emailVerified |-> id \in verified]

\* onAuthStateChanged observers are notified when the signed-in uid changes.
Emit(old, new) == IF old.uid # new.uid THEN Append(events, new) ELSE events


Remove(seq, i) == SubSeq(seq, 1, i - 1) \o SubSeq(seq, i + 1, Len(seq))

\* ------------------------------------------------- auth state listener
\* AuthContext.tsx:64, the test that rejects a not yet verified session.
Suppressed(fu, pending) == ~fu.emailVerified /\ pending

\* The listener effect has no dependencies (AuthContext.tsx:113): the callback
\* reads the isPendingVerification of the render that ran the effect.
ClosureValue(atMount, current) == atMount

\* AuthContext.tsx:73-84
MergeUser(fu, doc) ==
  [id |-> fu.uid, role |-> doc.role, emailVerified |-> fu.emailVerified]

CatchUserKeep(u) == u
\* AuthContext.tsx:92-94, the catch block of the callback.
CatchUser(u) == NoUser
CatchLogs == TRUE

OrphanUserKeep(u) == u
\* AuthContext.tsx:85-88, the branch for a missing profile record.
OrphanCalls == <<"signOut">>
OrphanUser(u) == NoUser

FinallyLoadingKeep(l) == l
FinallyInitializedKeep(i) == i
\* AuthContext.tsx:95-98, the finally block of the callback.
FinallyLoading(l) == FALSE
FinallyInitialized(i) == TRUE

\* A callback runs to its end: the last setUser, then the finally block.
CbEnd(u, cb, path, logged) ==
  /\ user' = Set(user, u)
  /\ loading' = Set(loading, FinallyLoading(loading))
  /\ isInitialized' = Set(isInitialized, FinallyInitialized(isInitialized))
  /\ cbSetAfterUnmount' = (cbSetAfterUnmount \/ ~mounted)
  /\ lastCb' = [fu |-> cb.fu, path |-> path,
                pendingAtInvoke |-> cb.pendingAtInvoke, calls |-> cb.calls,
                logged |-> logged]
  /\ UNCHANGED <<error, isPendingVerification>>

\* useEffect body: start() (AuthContext.tsx:50-108).
Start ==
  /\ mounted /\ listener = "none"
  /\ \/ /\ listener' = "armed"
        /\ loading' = TRUE
        /\ closurePending' = isPendingVerification
        /\ events' = Append(events, session)
        /\ UNCHANGED isInitialized
     \/ /\ listener' = "failed"
        /\ loading' = FALSE
        /\ isInitialized' = TRUE
        /\ UNCHANGED <<closurePending, events>>
  /\ UNCHANGED <<user, error, isPendingVerification, mounted, providerVars,
                 lastReported, cbs, op, cbSetAfterUnmount, nOps>>
  /\ NoCbEnd /\ NoOpEnd

\* The provider delivers the next session event: the callback runs up to its
\* first await (AuthContext.tsx:59-70, 89-91).
Deliver ==
  /\ listener = "armed" /\ events # <<>>
  /\ LET fu == Head(events)
         cb == [fu |-> fu, pc |-> "getDoc",
                pendingAtInvoke |-> isPendingVerification, calls |-> <<>>]
     IN /\ events' = Tail(events)
        /\ lastReported' = fu
        /\ IF fu = NoSession
           THEN CbEnd(NoUser, cb, "noSession", FALSE) /\ UNCHANGED cbs
           ELSE IF Suppressed(fu, ClosureValue(closurePending,
                                               isPendingVerification))
           THEN CbEnd(NoUser, cb, "suppressed", FALSE) /\ UNCHANGED cbs
           ELSE /\ cbs' = Append(cbs, cb)
                /\ UNCHANGED <<stateVars, cbSetAfterUnmount>>
                /\ NoCbEnd
  /\ UNCHANGED <<mounted, listener, closurePending, providerVars, op, nOps>>
  /\ NoOpEnd

\* getDoc(doc(db, 'users', uid)) settles (AuthContext.tsx:70-88, 92-98).
GetDocSettles(i) ==
  /\ i \in 1..Len(cbs) /\ cbs[i].pc = "getDoc"
  /\ LET cb == cbs[i]
         userDoc == profiles[cb.fu.uid]
     IN \/ /\ userDoc.exists
           /\ CbEnd(MergeUser(cb.fu, userDoc), cb, "profile", FALSE)
           /\ cbs' = Remove(cbs, i)
        \/ /\ ~userDoc.exists
           /\ cbs' = [cbs EXCEPT ![i].pc = "signOut",
                                 ![i].calls = @ \o OrphanCalls]
           /\ UNCHANGED <<stateVars, cbSetAfterUnmount>>
           /\ NoCbEnd
        \/ /\ CbEnd(CatchUser(user), cb, "fetchError", CatchLogs)
           /\ cbs' = Remove(cbs, i)
  /\ UNCHANGED <<mounted, listener, closurePending, providerVars, events,
                 lastReported, op, nOps>>
  /\ NoOpEnd

\* The forced firebaseSignOut(auth) settles (AuthContext.tsx:86-87, 92-98).
ForcedSignOutSettles(i) ==
  /\ i \in 1..Len(cbs) /\ cbs[i].pc = "signOut"
  /\ LET cb == cbs[i]
     IN \/ /\ session' = NoSession
           /\ events' = Emit(session, NoSession)
           /\ CbEnd(OrphanUser(user), cb, "orphan", FALSE)
        \/ /\ CbEnd(CatchUser(user), cb, "signOutError", CatchLogs)
           /\ UNCHANGED <<session, events>>
  /\ cbs' = Remove(cbs, i)
  /\ UNCHANGED <<mounted, listener, closurePending, accounts, verified,
                 profiles, lastReported, op, nOps>>
  /\ NoOpEnd

\* Cleanup of the effect (AuthContext.tsx:110-112).
Unmount ==
  /\ mounted
  /\ mounted' = FALSE
  /\ listener' = IF listener = "armed" THEN "closed" ELSE listener
  /\ UNCHANGED <<stateVars, closurePending, providerVars, events,
                 lastReported, cbs, op, cbSetAfterUnmount, nOps>>
  /\ NoCbEnd /\ NoOpEnd


\* ----------------------------------------------- Session Store operations
SignInErrors == {"auth/user-not-found", "auth/wrong-password",
                 "auth/invalid-email", "auth/too-many-requests",
                 "other", "nonError"}
SignUpErrors == {"auth/email-already-in-use", "auth/weak-password",
                 "other", "nonError"}

SignInMessageGeneric(code) ==
  "Failed to sign in. Please check your credentials."
\* AuthContext.tsx:122-136
SignInMessage(code) ==
  CASE code = "auth/user-not-found" -> "No account found with this email address."
    [] code = "auth/wrong-password" -> "Incorrect password. Please try again."
    [] code = "auth/invalid-email" -> "Please enter a valid email address."
    [] code = "auth/too-many-requests" ->
         "Too many failed attempts. Please try again later."
    [] code = "nonError" -> "An unexpected error occurred. Please try again."
    [] OTHER -> "Failed to sign in. Please check your credentials."

\* AuthContext.tsx:173-183
SignUpMessage(code) ==
  CASE code = "auth/email-already-in-use" ->
         "This email is already registered. Please use a different email or sign in."
    [] code = "auth/weak-password" ->
         "Password should be at least 6 characters long."
    [] code = "nonError" -> "An unexpected error occurred. Please try again."
    [] OTHER -> "Failed to sign up. Please try again."

SignOutMessage == "Failed to sign out. Please try again."
DeleteMessage == "Failed to delete account. Please try again."

\* AuthContext.tsx:155-164, the profile record signUp writes.
SignUpDoc(role) == [exists |-> TRUE, role |-> role, emailVerified |-> FALSE]

ClearUserKeep(u) == u
ClearPendingKeep(p) == p
ClearErrorKeep(e) == e
\* AuthContext.tsx:42-47
ClearUser(u) == NoUser
ClearError(e) == NoError
ClearPending(p) == FALSE
clearAuthState ==
  /\ user' = Set(user, ClearUser(user))
  /\ error' = Set(error, ClearError(error))
  /\ isPendingVerification' =
       Set(isPendingVerification, ClearPending(isPendingVerification))
  /\ loading' = Set(loading, FALSE)

\* AuthContext.tsx:168-169: setIsPendingVerification(true) and the
\* clearAuthState() after it are applied in call order.
SignUpPending(p) == ClearPending(TRUE)

\* AuthContext.tsx:238-251: the children (every consumer of the context) are
\* rendered only when isInitialized; otherwise the initializing view is.
RenderGateOpen(initialized) == TRUE
RenderGate(initialized) == initialized

CanStart ==
  /\ mounted /\ RenderGate(isInitialized)
  /\ op = Idle /\ nOps < MaxOps

Begin(kind, pc, uid, role, calls) ==
  /\ op' = [kind |-> kind, pc |-> pc, uid |-> uid, role |-> role,
            calls |-> calls]
  /\ nOps' = nOps + 1

Ended(kind, outcome, thrown) ==
  /\ lastOutcome' = outcome
  /\ lastEnd' = [kind |-> kind, thrown |-> thrown]

End(outcome) ==
  /\ op' = Idle
  /\ Ended(op.kind, outcome, "none")

FailUserCleared(u) == NoUser
FailLoadingKeep(l) == l
\* The catch blocks call setError only (AuthContext.tsx:120-137, 171-184,
\* 195-198, 213-216); the finally blocks call setLoading(false).
FailUser(u) == u
FailLoading(l) == FALSE

\* catch { setError(msg); throw error } finally { setLoading(false) }
Fail(code, msg) ==
  /\ error' = Set(error, msg)
  /\ loading' = Set(loading, FailLoading(loading))
  /\ user' = Set(user, FailUser(user))
  /\ op' = Idle
  /\ Ended(op.kind, "threw", code)
  /\ UNCHANGED <<isInitialized, isPendingVerification>>

listenerVars == <<mounted, listener, closurePending, lastReported, cbs,
                  cbSetAfterUnmount>>

\* signIn up to its await (AuthContext.tsx:115-119).
SignInStart(id) ==
  /\ CanStart
  /\ Begin("signIn", "signIn", id, "none", <<"signIn">>)
  /\ loading' = TRUE
  /\ error' = NoError
  /\ UNCHANGED <<user, isInitialized, isPendingVerification, listenerVars,
                 providerVars, events>>
  /\ NoCbEnd /\ NoOpEnd

SignInUserEager(u, id) ==
  [id |-> id, role |-> "patient", emailVerified |-> id \in verified]
\* signIn calls no setUser: after the await it runs the finally block only
\* (AuthContext.tsx:119, 138-140).
SignInUser(u, id) == u

\* signInWithEmailAndPassword settles (AuthContext.tsx:119-140).
SignInSettles ==
  /\ op.kind = "signIn"
  /\ \/ /\ op.uid \in accounts
        /\ session' = SessionOf(op.uid)
        /\ events' = Emit(session, SessionOf(op.uid))
        /\ loading' = Set(loading, FALSE)
        /\ user' = Set(user, SignInUser(user, op.uid))
        /\ End("returned")
        /\ UNCHANGED <<error, isInitialized, isPendingVerification>>
     \/ /\ \E code \in SignInErrors : Fail(code, SignInMessage(code))
        /\ UNCHANGED <<session, events>>
  /\ UNCHANGED <<listenerVars, accounts, verified, profiles, nOps>>
  /\ NoCbEnd

\* signUp up to its first await (AuthContext.tsx:143-148).
SignUpStart(id, role) ==
  /\ CanStart
  /\ Begin("signUp", "createAccount", id, role, <<"createAccount">>)
  /\ loading' = TRUE
  /\ error' = NoError
  /\ UNCHANGED <<user, isInitialized, isPendingVerification, listenerVars,
                 providerVars, events>>
  /\ NoCbEnd /\ NoOpEnd

\* createUserWithEmailAndPassword settles; on success setDoc is called
\* (AuthContext.tsx:148-166).
CreateAccountSettles ==
  /\ op.kind = "signUp" /\ op.pc = "createAccount"
  /\ \/ /\ op.uid \notin accounts
        /\ accounts' = accounts \cup {op.uid}
        /\ session' = SessionOf(op.uid)
        /\ events' = Emit(session, SessionOf(op.uid))
        /\ op' = [op EXCEPT !.pc = "setDoc", !.calls = @ \o <<"setDoc">>]
        /\ UNCHANGED stateVars /\ NoOpEnd
     \/ /\ \E code \in SignUpErrors : Fail(code, SignUpMessage(code))
        /\ UNCHANGED <<accounts, session, events>>
  /\ UNCHANGED <<listenerVars, verified, profiles, nOps>>
  /\ NoCbEnd

\* setDoc settles; on success sendEmailVerification is called
\* (AuthContext.tsx:166-167).
SetDocSettles ==
  /\ op.kind = "signUp" /\ op.pc = "setDoc"
  /\ \/ /\ profiles' = [profiles EXCEPT ![op.uid] = SignUpDoc(op.role)]
        /\ op' = [op EXCEPT !.pc = "sendVerification",
                            !.calls = @ \o <<"sendVerification">>]
        /\ UNCHANGED stateVars /\ NoOpEnd
     \/ /\ Fail("other", SignUpMessage("other"))
        /\ UNCHANGED profiles
  /\ UNCHANGED <<listenerVars, session, accounts, verified, events, nOps>>
  /\ NoCbEnd

\* sendEmailVerification settles (AuthContext.tsx:167-187).
SendVerificationSettles ==
  /\ op.kind = "signUp" /\ op.pc = "sendVerification"
  /\ \/ /\ user' = Set(user, ClearUser(user))
        /\ error' = Set(error, ClearError(error))
        /\ isPendingVerification' =
             Set(isPendingVerification, SignUpPending(isPendingVerification))
        /\ loading' = Set(loading, FALSE)
        /\ End("true")
        /\ UNCHANGED isInitialized
     \/ Fail("other", SignUpMessage("other"))
  /\ UNCHANGED <<listenerVars, providerVars, events, nOps>>
  /\ NoCbEnd

\* signOut up to its await (AuthContext.tsx:190-193).
SignOutStart ==
  /\ CanStart
  /\ Begin("signOut", "signOut", "none", "none", <<"signOut">>)
  /\ loading' = TRUE
  /\ UNCHANGED <<user, error, isInitialized, isPendingVerification, listenerVars,
                 providerVars, events>>
  /\ NoCbEnd /\ NoOpEnd

\* signOut leaves unsub alone (AuthContext.tsx:190-202).
SignOutListenerClosed(l) == "closed"
SignOutListener(l) == l

\* firebaseSignOut settles (AuthContext.tsx:193-201).
SignOutSettles ==
  /\ op.kind = "signOut"
  /\ \/ /\ session' = NoSession
        /\ events' = Emit(session, NoSession)
        /\ clearAuthState
        /\ End("returned")
        /\ UNCHANGED isInitialized
     \/ /\ Fail("other", SignOutMessage)
        /\ UNCHANGED <<session, events>>
  /\ listener' = SignOutListener(listener)
  /\ UNCHANGED <<mounted, closurePending, lastReported, cbs, cbSetAfterUnmount,
                 accounts, verified, profiles, nOps>>
  /\ NoCbEnd

\* deleteAccount with auth.currentUser null runs to its end at once;
\* otherwise up to the first await (AuthContext.tsx:204-209, 217-219).
DeleteAccountStart ==
  /\ CanStart
  /\ IF session = NoSession
     THEN /\ nOps' = nOps + 1
          /\ loading' = FALSE
          /\ Ended("deleteAccount", "returned", "none")
          /\ UNCHANGED op
     ELSE /\ Begin("deleteAccount", "deleteDoc", session.uid, "none",
                   <<"deleteDoc">>)
          /\ loading' = TRUE
          /\ NoOpEnd
  /\ UNCHANGED <<user, error, isInitialized, isPendingVerification,
                 listenerVars, providerVars, events>>
  /\ NoCbEnd

\* deleteDoc settles; on success currentUser.delete() is called
\* (AuthContext.tsx:209-210).
DeleteDocSettles ==
  /\ op.kind = "deleteAccount" /\ op.pc = "deleteDoc"
  /\ \/ /\ profiles' = [profiles EXCEPT ![op.uid] = NoDoc]
        /\ op' = [op EXCEPT !.pc = "deleteUser",
                            !.calls = @ \o <<"deleteUser">>]
        /\ UNCHANGED stateVars /\ NoOpEnd
     \/ /\ Fail("other", DeleteMessage)
        /\ UNCHANGED profiles
  /\ UNCHANGED <<listenerVars, session, accounts, verified, events, nOps>>
  /\ NoCbEnd

\* currentUser.delete() settles (AuthContext.tsx:210-219).
DeleteUserSettles ==
  /\ op.kind = "deleteAccount" /\ op.pc = "deleteUser"
  /\ \/ /\ op.uid \in accounts
        /\ accounts' = accounts \ {op.uid}
        /\ verified' = verified \ {op.uid}
        /\ LET new == IF session.uid = op.uid THEN NoSession ELSE session
           IN session' = new /\ events' = Emit(session, new)
        /\ clearAuthState
        /\ End("returned")
        /\ UNCHANGED isInitialized
     \/ /\ Fail("other", DeleteMessage)
        /\ UNCHANGED <<session, accounts, verified, events>>
  /\ UNCHANGED <<listenerVars, profiles, nOps>>
  /\ NoCbEnd

\* AuthContext.tsx:222-224
setPendingVerification(pending) ==
  /\ mounted /\ RenderGate(isInitialized) /\ nOps < MaxOps
  /\ isPendingVerification # pending
  /\ isPendingVerification' = pending
  /\ nOps' = nOps + 1
  /\ UNCHANGED <<user, loading, error, isInitialized, listenerVars,
                 providerVars, events, op>>
  /\ NoCbEnd /\ NoOpEnd

\* ------------------------------------------ outside the Session Store
\* home.tsx:6-17: handleLogout signs out at the provider directly.
HandleLogout ==
  /\ session # NoSession
  /\ session' = NoSession
  /\ events' = Emit(session, NoSession)
  /\ UNCHANGED <<stateVars, listenerVars, accounts, verified, profiles, op,
                 nOps>>
  /\ NoCbEnd /\ NoOpEnd

\* ------------------------------------------------------- specification
\* ------------------------------------------------------ navigation guard
\* RootLayoutNav: the navigation effect of the root layout.  The repository
\* holds two builds of it; `variant` says which one runs.
NoRedirect == "none"
PatientHome == "/(patient-tabs)/home"
TherapistHome == "/(tabs)/home"
NoRun == [ran |-> FALSE, from |-> <<>>, target |-> NoRedirect]

\* The routes the guard is applied to.
Routes ==
  { <<>>, <<"index">>, <<"home">>,
    <<"(auth)", "login">>, <<"(auth)", "register">>,
    <<"(auth)", "verification">>, <<"verification">>,
    <<"(patient-tabs)", "home">>, <<"(tabs)", "home">>,
    <<"patient-detail", "1">> }

\* The users useAuth() can publish.
GuardUsers ==
  { NoUser,
    [id |-> "a", role |-> "patient", emailVerified |-> TRUE],
    [id |-> "a", role |-> "therapist", emailVerified |-> TRUE] }

\* segments[0] === g; segments[0] of an empty list is undefined.
InGroup(segs, g) == Len(segs) > 0 /\ segs[1] = g

\* segments[segments.length - 1]; undefined for an empty list.
LastSegment(segs) == IF Len(segs) = 0 THEN "undefined" ELSE segs[Len(segs)]

\* if (!isMounted || loading) return;   (second variant: !isInitialized)
GuardGateMountedOnly(ready, ld) == ~ready
GuardGate(ready, ld) == ~ready \/ ld

\* The second variant returns on the index page before any other rule.
OnIndex(v, segs) == v = 2 /\ (Len(segs) = 0 \/ segs[1] = "index")

\* user.role === 'patient' ? patient tabs : therapist tabs
RoleHomeTherapist(role) == TherapistHome
RoleHome(role) == IF role = "patient" THEN PatientHome ELSE TherapistHome

\* The last two branches: a user inside the other role's tab group.
SegregationOff(u, segs) == NoRedirect
Segregation(u, segs) ==
  IF u.role = "patient" /\ InGroup(segs, "(tabs)") THEN PatientHome
  ELSE IF u.role = "therapist" /\ InGroup(segs, "(patient-tabs)")
       THEN TherapistHome
  ELSE NoRedirect

\* The navigation effect as a function: the route it replaces the current
\* one with, or NoRedirect.
Guard(v, ready, ld, pending, u, segs) ==
  IF GuardGate(ready, ld) THEN NoRedirect
  ELSE IF OnIndex(v, segs) THEN NoRedirect
  ELSE IF pending
       THEN IF LastSegment(segs) # "verification" THEN "/verification"
            ELSE NoRedirect
  ELSE IF u = NoUser /\ ~InGroup(segs, "(auth)") THEN "/login"
  ELSE IF u # NoUser
       THEN IF InGroup(segs, "(auth)") THEN RoleHome(u.role)
            ELSE Segregation(u, segs)
  ELSE NoRedirect

\* A router whose '/login' is a root route, outside the (auth) group.
ResolveLoginAtRoot(target) ==
  CASE target = "/verification" ->
         { <<"verification">>, <<"(auth)", "verification">> }
    [] target = "/login" -> { <<"login">> }
    [] target = PatientHome -> { <<"(patient-tabs)", "home">> }
    [] target = TherapistHome -> { <<"(tabs)", "home">> }

\* router.replace(target): the segments of the route the target names.  The
\* verification screen is not part of the sources; it is either a root
\* route or a route of the (auth) group.
Resolve(target) ==
  CASE target = "/verification" ->
         { <<"verification">>, <<"(auth)", "verification">> }
    [] target = "/login" -> { <<"(auth)", "login">> }
    [] target = PatientHome -> { <<"(patient-tabs)", "home">> }
    [] target = TherapistHome -> { <<"(tabs)", "home">> }

\* setIsMounted(true) of the mount effect; the 200 ms timer of the second
\* variant.
NavMount ==
  /\ ~isMounted
  /\ isMounted' = TRUE /\ effectDue' = TRUE
  /\ UNCHANGED <<variant, segments, redirect, hops>>

\* One run of the navigation effect.
GuardEffect ==
  /\ effectDue
  /\ LET t == Guard(variant, isMounted, loading, isPendingVerification,
                    user, segments)
     IN /\ redirect' = [ran |-> TRUE, from |-> segments, target |-> t]
        /\ IF t = NoRedirect THEN segments' = segments
           ELSE segments' \in Resolve(t)
        /\ hops' = IF t = NoRedirect THEN hops ELSE hops + 1
  /\ effectDue' = (segments' # segments)
  /\ UNCHANGED <<variant, isMounted>>

\* The user moves to another route of the rendered Stack.
Navigate(route) ==
  /\ isMounted /\ ~loading /\ ~effectDue
  /\ route # segments
  /\ segments' = route /\ effectDue' = TRUE /\ hops' = 0
  /\ UNCHANGED <<variant, isMounted, redirect>>

\* ------------------------------------------------------ notification feed
\* NotificationProvider: the live query on the notifications of the current
\* user, its mirror, and the two mark operations.  The repository holds two
\* builds of it; `feedVariant` says which one runs.
DocIds == 1..MaxDocs
NoNotification == [exists |-> FALSE, to |-> "none", read |-> FALSE]
NoCleanup == [kind |-> "none", sub |-> 0]
NoMark == [kind |-> "idle", ids |-> {}, mirror |-> {}, calls |-> <<>>,
           outcome |-> "none", committed |-> FALSE, logged |-> FALSE]

\* lastMark describes the mark call that ended in the last step; only a
\* committed markAllAsRead is remembered, until the next snapshot.
KeepMark ==
  lastMark' = IF lastMark.kind = "markAllAsRead" /\ lastMark.committed
              THEN lastMark ELSE NoMark

\* The users useAuth() can publish to the feed.
FeedUsers ==
  { NoUser,
    [id |-> "a", role |-> "patient", emailVerified |-> TRUE],
    [id |-> "b", role |-> "therapist", emailVerified |-> TRUE] }

\* The number of documents created so far; a document's id is also its
\* createdAt.
nDocs == Cardinality({d \in DocIds : store[d].exists})

\* snapshot.docs of the query where('toUserId', '==', uid),
\* orderBy('createdAt', 'desc'): the ids, newest first.
RECURSIVE QueryFrom(_, _, _)
QueryFrom(st, uid, d) ==
  IF d = 0 THEN <<>>
  ELSE IF st[d].exists /\ st[d].to = uid
       THEN <<d>> \o QueryFrom(st, uid, d - 1)
       ELSE QueryFrom(st, uid, d - 1)
Query(st, uid) == QueryFrom(st, uid, MaxDocs)

\* snapshot.docs.map(doc => ({id: doc.id, ...doc.data(), createdAt}))
ToEntry(st, d) == [id |-> d, to |-> st[d].to, read |-> st[d].read]
NotificationsList(st, docs) == [i \in DOMAIN docs |-> ToEntry(st, docs[i])]

\* setNotifications(notificationsList)
SnapshotMirrorMerge(old, list) == old \o list
SnapshotMirror(old, list) == list

\* const unreadCount = notifications.filter(n => !n.read).length;
IsUnread(n) == ~n.read
unreadCountAll == Len(notifications)
unreadCount == Len(SelectSeq(notifications, IsUnread))

\* unsubscribe() of live query n: the backend forgets the query.
ClosedSub == [uid |-> "none", state |-> "closed", seen |-> <<0>>]
Unsubscribe(ss, n) ==
  IF n \in DOMAIN ss THEN [ss EXCEPT ![n] = ClosedSub] ELSE ss

\* The cleanup of the previous run of the effect.
RunCleanupNothing(c, ref, ss) == ss
RunCleanup(c, ref, ss) ==
  CASE c.kind = "none" -> ss
    [] c.kind = "ref" -> IF ref # 0 THEN Unsubscribe(ss, ref) ELSE ss
    [] c.kind = "unsubscribe" -> Unsubscribe(ss, c.sub)

\* A dependency of the subscription effect changed: [user?.id].
FeedEffectDue == feedMounted /\ user.id # effectUser

\* The else branch of the effect ("local" build only): setNotifications([]).
NoUserMirror(v, old) == IF v = "local" THEN <<>> ELSE old
NoUserLoading(v, old) == IF v = "local" THEN FALSE ELSE old

\* One run of the subscription effect: the cleanup of the previous run, then
\* the body.
FeedEffect ==
  /\ FeedEffectDue
  /\ effectUser' = user.id
  /\ LET closed == RunCleanup(cleanup, unsubscribeRef, subs)
         n == Len(subs) + 1
     IN IF user.id # "none"
        THEN /\ Len(subs) < MaxSubs
             /\ subs' = Append(closed, [uid |-> user.id, state |-> "active",
                                        seen |-> <<0>>])
             /\ unsubscribeRef' = IF feedVariant = "ref" THEN n
                                  ELSE unsubscribeRef
             /\ cleanup' = IF feedVariant = "ref" THEN [kind |-> "ref", sub |-> 0]
                           ELSE [kind |-> "unsubscribe", sub |-> n]
             /\ UNCHANGED <<notifications, feedLoading>>
        ELSE /\ subs' = closed
             /\ cleanup' = IF feedVariant = "ref" THEN [kind |-> "ref", sub |-> 0]
                           ELSE NoCleanup
             /\ notifications' = NoUserMirror(feedVariant, notifications)
             /\ feedLoading' = NoUserLoading(feedVariant, feedLoading)
             /\ UNCHANGED unsubscribeRef
  /\ UNCHANGED <<feedVariant, feedMounted, store, mark, user>>
  /\ KeepMark

\* NotificationProvider unmounts: the cleanup of the last run.
FeedUnmount ==
  /\ feedMounted /\ ~FeedEffectDue
  /\ feedMounted' = FALSE
  /\ subs' = RunCleanup(cleanup, unsubscribeRef, subs)
  /\ cleanup' = NoCleanup
  /\ UNCHANGED <<feedVariant, notifications, feedLoading, effectUser,
                 unsubscribeRef, store, mark, user>>
  /\ KeepMark

\* The Session Store publishes another user.
UserChanges(u) ==
  /\ feedMounted /\ ~FeedEffectDue
  /\ u.id # user.id
  /\ user' = u
  /\ UNCHANGED <<feedVariant, feedMounted, notifications, feedLoading,
                 effectUser, unsubscribeRef, cleanup, subs, store, mark>>
  /\ KeepMark

\* The backend delivers the result of live query n: the first result, and
\* every later result that differs from the one delivered before.
Snapshot(n) ==
  /\ subs[n].state = "active"
  /\ Query(store, subs[n].uid) # subs[n].seen
  /\ subs' = [subs EXCEPT ![n].seen = Query(store, subs[n].uid)]
  /\ notifications' =
       SnapshotMirror(notifications,
                      NotificationsList(store, Query(store, subs[n].uid)))
  /\ feedLoading' = FALSE
  /\ lastMark' = IF lastMark.kind = "markAllAsRead" /\ lastMark.committed
                 THEN [lastMark EXCEPT !.kind = "delivered"]
                 ELSE NoMark
  /\ UNCHANGED <<feedVariant, feedMounted, effectUser, unsubscribeRef,
                 cleanup, store, mark, user>>

\* Live query n fails: the error callback; the backend ends the query.
SubError(n) ==
  /\ subs[n].state = "active"
  /\ subs' = [subs EXCEPT ![n].state = "errored"]
  /\ feedLoading' = FALSE
  /\ UNCHANGED <<feedVariant, feedMounted, notifications, effectUser,
                 unsubscribeRef, cleanup, store, mark, user>>
  /\ KeepMark

\* Another client adds an unread notification for user `to`.
Create(to) ==
  /\ nDocs < MaxDocs
  /\ store' = [store EXCEPT ![nDocs + 1] =
                 [exists |-> TRUE, to |-> to, read |-> FALSE]]
  /\ UNCHANGED <<feedVariant, feedMounted, notifications, feedLoading,
                 effectUser, unsubscribeRef, cleanup, subs, mark,
                 user>>
  /\ KeepMark

\* A mark call comes from a screen: the effect has run, and the "ref" build
\* renders its children only when loading is false.
CanMark ==
  /\ feedMounted /\ ~FeedEffectDue /\ mark = NoMark
  /\ feedVariant = "ref" => ~feedLoading

\* How a mark operation ends when its backend call failed: the catch logs.
MarkOutcomeRethrow(failed) == IF failed THEN "threw" ELSE "returned"
MarkOutcome(failed) == "returned"

\* updateDoc / batch.commit: read = true on every document of ids.
CommitStoreNone(st, ids) == st
CommitStore(st, ids) ==
  [d \in DocIds |-> IF d \in ids THEN [st[d] EXCEPT !.read = TRUE]
                    ELSE st[d]]

\* markAsRead(id) up to its await.
MarkAsReadStart(id) ==
  /\ CanMark
  /\ mark' = [NoMark EXCEPT !.kind = "markAsRead", !.ids = {id},
                            !.calls = <<"updateDoc">>]
  /\ UNCHANGED <<feedVariant, feedMounted, notifications, feedLoading,
                 effectUser, unsubscribeRef, cleanup, subs, store,
                 user>>
  /\ KeepMark

\* updateDoc settles: it fails on a missing document, and may fail anyway.
MarkAsReadSettles ==
  /\ mark.kind = "markAsRead"
  /\ \E failed \in BOOLEAN :
       /\ (\E d \in mark.ids : ~store[d].exists) => failed
       /\ store' = IF failed THEN store ELSE CommitStore(store, mark.ids)
       /\ lastMark' = [mark EXCEPT !.outcome = MarkOutcome(failed),
                                   !.committed = ~failed,
                                   !.logged = failed]
  /\ mark' = NoMark
  /\ UNCHANGED <<feedVariant, feedMounted, notifications, feedLoading,
                 effectUser, unsubscribeRef, cleanup, subs, user>>

\* notifications.forEach(n => { if (!n.read) batch.update(...) })
MirrorIds(ns) == {ns[i].id : i \in DOMAIN ns}
BatchIdsAll(ns) == MirrorIds(ns)
BatchIds(ns) == {ns[i].id : i \in {j \in DOMAIN ns : ~ns[j].read}}

\* markAllAsRead() up to its await; it returns at once on an empty mirror.
MarkAllAsReadStart ==
  /\ CanMark
  /\ IF Len(notifications) = 0
     THEN /\ lastMark' = [NoMark EXCEPT !.kind = "markAllAsRead",
                                        !.outcome = "returned"]
          /\ mark' = mark
     ELSE /\ mark' = [NoMark EXCEPT !.kind = "markAllAsRead",
                                    !.ids = BatchIds(notifications),
                                    !.mirror = MirrorIds(notifications),
                                    !.calls = <<"commit">>]
          /\ lastMark' = NoMark
  /\ UNCHANGED <<feedVariant, feedMounted, notifications, feedLoading,
                 effectUser, unsubscribeRef, cleanup, subs, store, user>>

\* batch.commit settles: every update of the batch, or none.
MarkAllAsReadSettles ==
  /\ mark.kind = "markAllAsRead"
  /\ \E failed \in BOOLEAN :
       /\ (\E d \in mark.ids : ~store[d].exists) => failed
       /\ store' = IF failed THEN store ELSE CommitStore(store, mark.ids)
       /\ lastMark' = [mark EXCEPT !.outcome = MarkOutcome(failed),
                                   !.committed = ~failed,
                                   !.logged = failed]
  /\ mark' = NoMark
  /\ UNCHANGED <<feedVariant, feedMounted, notifications, feedLoading,
                 effectUser, unsubscribeRef, cleanup, subs, user>>

\* ---------------------------------------------------- registration screen
\* What the user can type into the four inputs.
Names == {"", "Ann"}
Emails == {"", "b@x.org"}
Passwords == {"", "12345", "123456"}

\* register.tsx:13-20, the state of a freshly mounted RegisterScreen;
\* `route` is where the router is, `calls` the arguments of the signUp calls
\* made, `success` the value the last signUp returned.
RegisterFresh ==
  [step |-> "role", role |-> "patient", name |-> "", email |-> "",
   password |-> "", confirmPassword |-> "", loading |-> FALSE,
   error |-> NoError, pc |-> "idle", calls |-> <<>>, success |-> "unset",
   route |-> "/register", presses |-> 0]

ValidateNoLength(n, e, p, c) ==
  IF n = "" \/ e = "" \/ p = "" \/ c = "" THEN "Please fill in all fields"
  ELSE IF p # c THEN "Passwords do not match"
  ELSE NoError
\* register.tsx:69-82: the message of the first check that fails, or none.
Validate(n, e, p, c) ==
  IF n = "" \/ e = "" \/ p = "" \/ c = "" THEN "Please fill in all fields"
  ELSE IF p # c THEN "Passwords do not match"
  ELSE IF Len(p) < 6 THEN "Password must be at least 6 characters long"
  ELSE NoError

\* The screen is shown and its inputs are.
OnDetails == register.route = "/register" /\ register.step = "details"

\* register.tsx:63-66
handleRoleSelect(selectedRole) ==
  /\ register.route = "/register" /\ register.step = "role"
  /\ register' = [register EXCEPT !.role = selectedRole, !.step = "details"]
  /\ UNCHANGED app

\* register.tsx:223, the Back button.
BackToRole ==
  /\ OnDetails
  /\ register' = [register EXCEPT !.step = "role"]
  /\ UNCHANGED app

\* register.tsx:171, 180, 190, 199: onChangeText of the four inputs.
setName(v) ==
  /\ OnDetails /\ register.name # v
  /\ register' = [register EXCEPT !.name = v]
  /\ UNCHANGED app
setEmail(v) ==
  /\ OnDetails /\ register.email # v
  /\ register' = [register EXCEPT !.email = v]
  /\ UNCHANGED app
setPassword(v) ==
  /\ OnDetails /\ register.password # v
  /\ register' = [register EXCEPT !.password = v]
  /\ UNCHANGED app
setConfirmPassword(v) ==
  /\ OnDetails /\ register.confirmPassword # v
  /\ register' = [register EXCEPT !.confirmPassword = v]
  /\ UNCHANGED app

\* register.tsx:68-87: handleRegister up to its return or its await. The
\* button is disabled while loading (line 215).
handleRegister ==
  /\ OnDetails /\ ~register.loading /\ register.pc = "idle"
  /\ register.presses < MaxPresses
  /\ LET r == register
         msg == Validate(r.name, r.email, r.password, r.confirmPassword)
     IN IF msg # NoError
        THEN register' = [r EXCEPT !.error = msg, !.presses = @ + 1]
        ELSE register' =
               [r EXCEPT !.loading = TRUE, !.error = NoError,
                         !.pc = "signUp", !.success = "unset",
                         !.presses = @ + 1,
                         !.calls = Append(@, [email |-> r.email,
                                              password |-> r.password,
                                              name |-> r.name,
                                              role |-> r.role])]
  /\ UNCHANGED app

\* register.tsx:88-90: if (success) router.replace('/verification').
NavigateIf(success) == success = "true"

\* signUp returns true (AuthContext.tsx:170); register.tsx:87-90, 94-96.
RegisterSignUpReturns ==
  /\ register.pc = "signUp"
  /\ register' = [register EXCEPT
                    !.pc = "idle", !.success = "true", !.loading = FALSE,
                    !.route = IF NavigateIf("true") THEN "/verification"
                              ELSE @]
  /\ UNCHANGED app

\* signUp rethrows (AuthContext.tsx:184); register.tsx:91-96.
RegisterSignUpThrows ==
  /\ register.pc = "signUp"
  /\ register' = [register EXCEPT
                    !.pc = "idle", !.success = "threw", !.loading = FALSE,
                    !.route = IF NavigateIf("threw") THEN "/verification"
                              ELSE @]
  /\ UNCHANGED app

\* ------------------------------------------------------------ app start-up
\* The handles the backend module exports, in the order it creates them
\* (part_002:54-57, 69-97).
Handles == <<"app", "auth", "db", "storage">>
\* The calls of initializeFirebase's try block (part_002:64-109) and of its
\* recovery (part_002:119-122).
MainSteps == <<"app", "auth", "db", "storage", "observer">>
RecoverySteps == <<"app", "auth", "db", "storage">>

NoHandles == [h \in {"app", "auth", "db", "storage"} |-> "none"]

\* part_000:141-145 and part_002:54-57 before anything ran. `fb` is the
\* position inside initializeFirebase, `exported` whether the import
\* resolved ("yes"), rejected ("threw") or is still pending ("no").
AppFresh(existingApps) ==
  [isInitialized |-> FALSE, error |-> NoError, initStep |-> "",
   pc |-> "mount", existingApps |-> existingApps,
   fb |-> [phase |-> "idle", at |-> 1], handles |-> NoHandles,
   exported |-> "no"]

\* part_000:147-162: the effect runs initializeApp up to the await import.
InitializeAppStart ==
  /\ app.pc = "mount"
  /\ app' = [app EXCEPT !.pc = "import", !.initStep = "Importing Firebase",
                        !.fb = [phase |-> "main", at |-> 1]]
  /\ UNCHANGED register

\* One call of the try block of initializeFirebase: it returns a handle, or
\* throws into the recovery (part_002:60-113).
FirebaseMainStep ==
  /\ app.pc = "import" /\ app.fb.phase = "main"
  /\ LET i == app.fb.at
     IN \/ app' = [app EXCEPT
                     !.handles = IF i <= Len(Handles)
                                 THEN [@ EXCEPT ![Handles[i]] = "default"]
                                 ELSE @,
                     !.fb = IF i < Len(MainSteps)
                            THEN [phase |-> "main", at |-> i + 1]
                            ELSE [phase |-> "returned", at |-> i],
                     !.exported = IF i < Len(MainSteps) THEN "no" ELSE "yes"]
        \/ app' = [app EXCEPT !.fb = [phase |-> "recovery", at |-> 1]]
  /\ UNCHANGED register

\* part_002:133-137: the module throws when initializeFirebase returned false.
ModuleThrows(ok) == ~ok

\* One call of the recovery: it returns a handle, or throws, and then
\* initializeFirebase returns false (part_002:117-128, 133-137).
FirebaseRecoveryStep ==
  /\ app.pc = "import" /\ app.fb.phase = "recovery"
  /\ LET i == app.fb.at
     IN \/ app' = [app EXCEPT
                     !.handles = [@ EXCEPT ![Handles[i]] = "recovery"],
                     !.fb = IF i < Len(RecoverySteps)
                            THEN [phase |-> "recovery", at |-> i + 1]
                            ELSE [phase |-> "returned", at |-> i],
                     !.exported = IF i < Len(RecoverySteps) THEN "no"
                                  ELSE "yes"]
        \/ app' = [app EXCEPT
                     !.fb = [phase |-> "failed", at |-> i],
                     !.exported = IF ModuleThrows(FALSE) THEN "threw"
                                  ELSE "yes"]
  /\ UNCHANGED register

\* part_000:187: if (!app || !auth || !db || !storage)
Missing(handles) == {h \in DOMAIN handles : handles[h] = "none"}

AppCatchSwallow(msg) == NoError
\* part_000:215-225: the catch block stores the error.
AppCatch(msg) == msg

\* part_000:162-226: initializeApp after the import settled.
InitializeAppResumes ==
  /\ app.pc = "import" /\ app.exported # "no"
  /\ IF app.exported = "threw"
     THEN app' = [app EXCEPT
                    !.pc = "done",
                    !.error = AppCatch("Failed to initialize Firebase services")]
     ELSE IF Missing(app.handles) # {}
     THEN app' = [app EXCEPT
                    !.pc = "done",
                    !.initStep = "Verifying Firebase services",
                    !.error = AppCatch("Firebase services failed to initialize")]
     ELSE app' = [app EXCEPT
                    !.pc = "done",
                    !.initStep = "Initializing other services",
                    !.isInitialized = TRUE]
  /\ UNCHANGED register

\* part_000:232-262: what App renders.
AppView(a) ==
  IF a.error # NoError THEN "error"
  ELSE IF ~a.isInitialized THEN "loading"
  ELSE "router"

\* Neither screen is part of the behaviour.
ScreenIdle == register = RegisterFresh /\ app = AppFresh(0)

\* The feed before NotificationProvider is part of the behaviour.
FeedIdle ==
  /\ feedVariant = "ref" /\ feedMounted = FALSE /\ notifications = <<>>
  /\ feedLoading = TRUE /\ effectUser = "unset" /\ unsubscribeRef = 0
  /\ cleanup = NoCleanup /\ subs = <<>>
  /\ store = [d \in DocIds |-> NoNotification]
  /\ mark = NoMark /\ lastMark = NoMark

Init ==
  /\ user = NoUser /\ loading = TRUE /\ error = NoError
  /\ isInitialized = FALSE /\ isPendingVerification = FALSE
  /\ mounted = TRUE /\ listener = "none" /\ closurePending = FALSE
  /\ accounts = {"a"} /\ verified = {"a"}
  /\ profiles = [i \in Ids |->
                   IF i = "a" THEN [exists |-> TRUE, role |-> "therapist",
                                    emailVerified |-> FALSE]
                   ELSE NoDoc]
  /\ session \in {NoSession, [uid |-> "a", emailVerified |-> TRUE]}
  /\ events = <<>> /\ lastReported = NoSession /\ cbs = <<>>
  /\ op = Idle /\ lastOutcome = "none" /\ lastEnd = NoEnd /\ lastCb = NoCb
  /\ cbSetAfterUnmount = FALSE
  /\ nOps = 0
  /\ variant = 1 /\ isMounted = FALSE /\ segments = <<>>
  /\ effectDue = FALSE /\ redirect = NoRun /\ hops = 0
  /\ FeedIdle /\ ScreenIdle

Next ==
  \/ Start /\ UNCHANGED <<navVars, feedVars, screenVars>>
  \/ Deliver /\ UNCHANGED <<navVars, feedVars, screenVars>>
  \/ \E i \in DOMAIN cbs : GetDocSettles(i) /\ UNCHANGED <<navVars, feedVars, screenVars>>
  \/ \E i \in DOMAIN cbs : ForcedSignOutSettles(i) /\ UNCHANGED <<navVars, feedVars, screenVars>>
  \/ Unmount /\ UNCHANGED <<navVars, feedVars, screenVars>>
  \/ \E id \in Ids : SignInStart(id) /\ UNCHANGED <<navVars, feedVars, screenVars>>
  \/ SignInSettles /\ UNCHANGED <<navVars, feedVars, screenVars>>
  \/ \E id \in Ids, role \in Roles : SignUpStart(id, role) /\ UNCHANGED <<navVars, feedVars, screenVars>>
  \/ CreateAccountSettles /\ UNCHANGED <<navVars, feedVars, screenVars>>
  \/ SetDocSettles /\ UNCHANGED <<navVars, feedVars, screenVars>>
  \/ SendVerificationSettles /\ UNCHANGED <<navVars, feedVars, screenVars>>
  \/ SignOutStart /\ UNCHANGED <<navVars, feedVars, screenVars>>
  \/ SignOutSettles /\ UNCHANGED <<navVars, feedVars, screenVars>>
  \/ DeleteAccountStart /\ UNCHANGED <<navVars, feedVars, screenVars>>
  \/ DeleteDocSettles /\ UNCHANGED <<navVars, feedVars, screenVars>>
  \/ DeleteUserSettles /\ UNCHANGED <<navVars, feedVars, screenVars>>
  \/ \E pending \in BOOLEAN : setPendingVerification(pending) /\ UNCHANGED <<navVars, feedVars, screenVars>>
  \/ HandleLogout /\ UNCHANGED <<navVars, feedVars, screenVars>>

Spec == Init /\ [][Next]_vars


\* The backend calls settle, the provider delivers its events and the effect
\* runs: none of them waits for the user.
Fairness ==
  /\ WF_vars(Start /\ UNCHANGED <<navVars, feedVars, screenVars>>)
  /\ WF_vars(Deliver /\ UNCHANGED <<navVars, feedVars, screenVars>>)
  /\ WF_vars(\E i \in DOMAIN cbs : GetDocSettles(i) /\ UNCHANGED <<navVars, feedVars, screenVars>>)
  /\ WF_vars(\E i \in DOMAIN cbs : ForcedSignOutSettles(i) /\ UNCHANGED <<navVars, feedVars, screenVars>>)
  /\ WF_vars(SignInSettles /\ UNCHANGED <<navVars, feedVars, screenVars>>)
  /\ WF_vars(CreateAccountSettles /\ UNCHANGED <<navVars, feedVars, screenVars>>)
  /\ WF_vars(SetDocSettles /\ UNCHANGED <<navVars, feedVars, screenVars>>)
  /\ WF_vars(SendVerificationSettles /\ UNCHANGED <<navVars, feedVars, screenVars>>)
  /\ WF_vars(SignOutSettles /\ UNCHANGED <<navVars, feedVars, screenVars>>)
  /\ WF_vars(DeleteDocSettles /\ UNCHANGED <<navVars, feedVars, screenVars>>)
  /\ WF_vars(DeleteUserSettles /\ UNCHANGED <<navVars, feedVars, screenVars>>)

FairSpec == Spec /\ Fairness

\* The guard applied to every input: the layout variant, the published user,
\* loading, isPendingVerification and the route are drawn here, and the
\* Session Store stands still.
GuardInit ==
  /\ user \in GuardUsers /\ loading \in BOOLEAN /\ error = NoError
  /\ isInitialized = TRUE /\ isPendingVerification \in BOOLEAN
  /\ mounted = TRUE /\ listener = "armed" /\ closurePending = FALSE
  /\ accounts = {"a"} /\ verified = {"a"}
  /\ profiles = [i \in Ids |->
                   IF i = "a" /\ user # NoUser
                   THEN [exists |-> TRUE, role |-> user.role,
                         emailVerified |-> FALSE]
                   ELSE NoDoc]
  /\ session = IF user = NoUser THEN NoSession
               ELSE [uid |-> "a", emailVerified |-> TRUE]
  /\ events = <<>> /\ lastReported = session /\ cbs = <<>>
  /\ op = Idle /\ lastOutcome = "none" /\ lastEnd = NoEnd /\ lastCb = NoCb
  /\ cbSetAfterUnmount = FALSE
  /\ nOps = 0
  /\ variant \in {1, 2} /\ isMounted = FALSE /\ segments \in Routes
  /\ effectDue = TRUE /\ redirect = NoRun /\ hops = 0
  /\ FeedIdle /\ ScreenIdle

authVars == <<stateVars, providerVars, listenerVars, events, op, lastOutcome,
              lastEnd, lastCb, nOps>>

GuardNext ==
  \/ NavMount /\ UNCHANGED <<authVars, feedVars, screenVars>>
  \/ GuardEffect /\ UNCHANGED <<authVars, feedVars, screenVars>>
  \/ \E route \in Routes : Navigate(route) /\ UNCHANGED <<authVars, feedVars, screenVars>>

GuardSpec == GuardInit /\ [][GuardNext]_vars

\* The feed under every sequence of user changes, backend deliveries and
\* mark calls; of the Session Store only the published user moves.
FeedInit ==
  /\ user = NoUser /\ loading = FALSE /\ error = NoError
  /\ isInitialized = TRUE /\ isPendingVerification = FALSE
  /\ mounted = TRUE /\ listener = "armed" /\ closurePending = FALSE
  /\ accounts = {"a", "b"} /\ verified = {"a", "b"}
  /\ profiles = [i \in Ids |-> NoDoc]
  /\ session = NoSession
  /\ events = <<>> /\ lastReported = NoSession /\ cbs = <<>>
  /\ op = Idle /\ lastOutcome = "none" /\ lastEnd = NoEnd /\ lastCb = NoCb
  /\ cbSetAfterUnmount = FALSE
  /\ nOps = 0
  /\ variant = 1 /\ isMounted = FALSE /\ segments = <<>>
  /\ effectDue = FALSE /\ redirect = NoRun /\ hops = 0
  /\ feedVariant \in {"ref", "local"} /\ feedMounted = TRUE
  /\ notifications = <<>> /\ feedLoading = (feedVariant = "ref")
  /\ effectUser = "unset" /\ unsubscribeRef = 0
  /\ cleanup = NoCleanup /\ subs = <<>>
  /\ store = [d \in DocIds |-> NoNotification]
  /\ mark = NoMark /\ lastMark = NoMark
  /\ ScreenIdle

authRest == <<loading, error, isInitialized, isPendingVerification,
              providerVars, listenerVars, events, op, lastOutcome, lastEnd,
              lastCb, nOps>>

FeedNext ==
  \/ FeedEffect /\ UNCHANGED <<authRest, navVars, screenVars>>
  \/ FeedUnmount /\ UNCHANGED <<authRest, navVars, screenVars>>
  \/ \E u \in FeedUsers : UserChanges(u) /\ UNCHANGED <<authRest, navVars, screenVars>>
  \/ \E n \in DOMAIN subs : Snapshot(n) /\ UNCHANGED <<authRest, navVars, screenVars>>
  \/ \E n \in DOMAIN subs : SubError(n) /\ UNCHANGED <<authRest, navVars, screenVars>>
  \/ \E to \in Ids : Create(to) /\ UNCHANGED <<authRest, navVars, screenVars>>
  \/ \E id \in MirrorIds(notifications) : MarkAsReadStart(id)
       /\ UNCHANGED <<authRest, navVars, screenVars>>
  \/ MarkAsReadSettles /\ UNCHANGED <<authRest, navVars, screenVars>>
  \/ MarkAllAsReadStart /\ UNCHANGED <<authRest, navVars, screenVars>>
  \/ MarkAllAsReadSettles /\ UNCHANGED <<authRest, navVars, screenVars>>

FeedSpec == FeedInit /\ [][FeedNext]_vars

\* The effect runs after the render that changed user?.id, the backend
\* delivers the snapshot of a live query and settles the writes it was sent:
\* none of them waits for the user.
FeedFairness ==
  /\ WF_vars(FeedEffect /\ UNCHANGED <<authRest, navVars, screenVars>>)
  /\ WF_vars(\E n \in DOMAIN subs : Snapshot(n) /\ UNCHANGED <<authRest, navVars, screenVars>>)
  /\ WF_vars(MarkAsReadSettles /\ UNCHANGED <<authRest, navVars, screenVars>>)
  /\ WF_vars(MarkAllAsReadSettles /\ UNCHANGED <<authRest, navVars, screenVars>>)

FairFeedSpec == FeedSpec /\ FeedFairness

\* Every variable outside the two screens, at rest: an initialized Session
\* Store with no user, the layout and the feed not part of the behaviour.
ElsewhereIdle ==
  /\ user = NoUser /\ loading = FALSE /\ error = NoError
  /\ isInitialized = TRUE /\ isPendingVerification = FALSE
  /\ mounted = TRUE /\ listener = "armed" /\ closurePending = FALSE
  /\ accounts = {"a"} /\ verified = {"a"}
  /\ profiles = [i \in Ids |-> NoDoc]
  /\ session = NoSession
  /\ events = <<>> /\ lastReported = NoSession /\ cbs = <<>>
  /\ op = Idle /\ lastOutcome = "none" /\ lastEnd = NoEnd /\ lastCb = NoCb
  /\ cbSetAfterUnmount = FALSE
  /\ nOps = 0
  /\ variant = 1 /\ isMounted = FALSE /\ segments = <<>>
  /\ effectDue = FALSE /\ redirect = NoRun /\ hops = 0
  /\ FeedIdle

elsewhere == <<authVars, navVars, feedVars>>

\* The registration screen under every sequence of inputs, presses and
\* signUp outcomes.
RegisterInit ==
  /\ ElsewhereIdle
  /\ register = RegisterFresh /\ app = AppFresh(0)

RegisterNext ==
  \/ \E r \in Roles : handleRoleSelect(r) /\ UNCHANGED elsewhere
  \/ BackToRole /\ UNCHANGED elsewhere
  \/ \E v \in Names : setName(v) /\ UNCHANGED elsewhere
  \/ \E v \in Emails : setEmail(v) /\ UNCHANGED elsewhere
  \/ \E v \in Passwords : setPassword(v) /\ UNCHANGED elsewhere
  \/ \E v \in Passwords : setConfirmPassword(v) /\ UNCHANGED elsewhere
  \/ handleRegister /\ UNCHANGED elsewhere
  \/ RegisterSignUpReturns /\ UNCHANGED elsewhere
  \/ RegisterSignUpThrows /\ UNCHANGED elsewhere

RegisterSpec == RegisterInit /\ [][RegisterNext]_vars

\* App start-up for every outcome of the calls of the backend module, with
\* and without a backend app left by an earlier evaluation.
AppInit ==
  /\ ElsewhereIdle
  /\ register = RegisterFresh
  /\ \E n \in {0, 1} : app = AppFresh(n)

AppNext ==
  \/ InitializeAppStart /\ UNCHANGED elsewhere
  \/ FirebaseMainStep /\ UNCHANGED elsewhere
  \/ FirebaseRecoveryStep /\ UNCHANGED elsewhere
  \/ InitializeAppResumes /\ UNCHANGED elsewhere

AppSpec == AppInit /\ [][AppNext]_vars

\* ------------------------------------------------------------ properties
TypeOK ==
  /\ user \in [id : Ids \cup {"none"}, role : Roles \cup {"none"},
               emailVerified : BOOLEAN]
  /\ loading \in BOOLEAN /\ isInitialized \in BOOLEAN
  /\ isPendingVerification \in BOOLEAN /\ mounted \in BOOLEAN
  /\ listener \in {"none", "armed", "failed", "closed"}
  /\ session \in [uid : Ids \cup {"none"}, emailVerified : BOOLEAN]
  /\ accounts \subseteq Ids /\ verified \subseteq accounts
  /\ nOps \in 0..MaxOps

\* A listener callback runs to its end in this step.
CbEnds ==
  \/ Len(cbs') < Len(cbs)
  \/ Len(events') < Len(events) /\ cbs' = cbs
\* signUp returns true in this step.
SignUpReturnsTrue ==
  op.kind = "signUp" /\ op' = Idle /\ lastOutcome' = "true"
\* The not yet verified session of a callback invoked under pending
\* verification.
UnverifiedUnderPending(cb) == cb.pendingAtInvoke /\ ~cb.fu.emailVerified

\* C1: a listener callback invoked while pendingVerification is true with a
\* session whose emailVerified is false does not fetch the profile and does
\* not end with a user.
C1_PendingRejectsUnverified ==
  /\ \A i \in DOMAIN cbs : ~UnverifiedUnderPending(cbs[i])
  /\ UnverifiedUnderPending(lastCb) => lastCb.path = "suppressed"

\* C2: in the step in which signUp returns true, pendingVerification is true.
C2_SignUpLeavesPending ==
  [][SignUpReturnsTrue /\ mounted => isPendingVerification']_vars

\* C3: a signUp that returns true has called, in this order, account
\* creation, the profile write and the verification e-mail; the profile
\* record of the new id holds the given role and emailVerified=false; the
\* local user is absent although the provider may hold the new session.
C3_SignUpOrderAndClear ==
  [][SignUpReturnsTrue =>
       /\ op.calls = <<"createAccount", "setDoc", "sendVerification">>
       /\ op.uid \in accounts'
       /\ profiles'[op.uid] =
            [exists |-> TRUE, role |-> op.role, emailVerified |-> FALSE]
       /\ mounted => user' = NoUser]_vars
C3_Witness ==
  /\ mounted /\ op = Idle /\ lastOutcome = "true"
  /\ user = NoUser /\ session # NoSession /\ ~session.emailVerified
  /\ profiles[session.uid].exists

\* C4: a callback that found no profile record for its session has called
\* the provider's sign-out and ends with user absent; when the sign-out
\* succeeded the provider session is gone.
C4_OrphanForcesSignOut ==
  [][CbEnds /\ lastCb'.path \in {"orphan", "signOutError"} =>
       /\ lastCb'.calls = <<"signOut">>
       /\ lastCb'.path = "orphan" => session' = NoSession
       /\ mounted => user' = NoUser]_vars
C4_Witness ==
  /\ mounted /\ lastCb.path = "orphan" /\ session = NoSession
  /\ user = NoUser /\ lastCb.fu.uid \in accounts

\* C5: a callback whose profile fetch or forced sign-out failed ends with
\* user absent and loading false, and the failure was logged.
C5_ListenerFailureIsSafe ==
  [][CbEnds /\ lastCb'.path \in {"fetchError", "signOutError"} =>
       /\ lastCb'.logged
       /\ mounted => (user' = NoUser /\ ~loading')]_vars
C5_Witness ==
  /\ mounted /\ lastCb.path \in {"fetchError", "signOutError"}
  /\ lastCb.logged /\ user = NoUser /\ ~loading /\ cbs = <<>> /\ op = Idle

\* C6: initialized never goes back to false, it becomes true only in a step
\* that ends a callback or fails the listener setup, and it is true after
\* every such step of a mounted provider.
C6_InitializedOnce ==
  [][/\ isInitialized => isInitialized'
     /\ (~isInitialized /\ isInitialized') =>
          (CbEnds \/ (listener = "none" /\ listener' = "failed"))
     /\ (mounted /\ (CbEnds \/ (listener = "none" /\ listener' = "failed")))
          => isInitialized']_vars
C6_Witness ==
  /\ mounted /\ isInitialized /\ cbs = <<>>
  /\ lastCb.path = "profile" /\ lastCb.fu.uid = "b"

\* Nothing is in flight: the effect has run, every session event the
\* provider emitted has been delivered, no callback and no operation is
\* suspended.
AtRest ==
  /\ mounted /\ listener # "none"
  /\ (listener = "armed" => events = <<>>)
  /\ cbs = <<>> /\ op = Idle

\* C7: loading is false whenever nothing is in flight, and a loading that is
\* true becomes false while the provider stays mounted.
C7_LoadingFalseAtRest ==
  /\ [](AtRest => ~loading)
  /\ (mounted /\ loading) ~> (~loading \/ ~mounted)
C7_Witness ==
  /\ AtRest /\ ~loading /\ user # NoUser
  /\ lastCb.path = "profile" /\ lastCb.fu.uid = "b"

\* C8: with no callback in flight, a user is present only if the session last
\* reported to the listener is present and has the user's id.
C8_UserMirrorsLastSession ==
  (mounted /\ cbs = <<>> /\ user # NoUser) =>
    (lastReported # NoSession /\ user.id = lastReported.uid)

\* C9: a listener callback calls no state setter after the unmount.
C9_NoSetterAfterUnmount == ~cbSetAfterUnmount

\* C10: while the provider call of signOut is in flight, user and error are
\* already absent.
C10_SignOutClearsFirst ==
  (mounted /\ op.kind = "signOut") => (user = NoUser /\ error = NoError)

\* An operation of the given kind ends in this step.
OpEnds(kind) == op.kind = kind /\ op' = Idle

\* C11: signOut ends with user absent whether the provider call succeeded
\* or failed.
C11_SignOutAlwaysClears ==
  [][OpEnds("signOut") /\ mounted => user' = NoUser]_vars

C13_SignInRejection ==
  [][(OpEnds("signIn") /\ lastOutcome' = "threw") =>
       LET code == lastEnd'.thrown
       IN /\ op.calls = <<"signIn">>
          /\ code \in SignInErrors
          /\ UNCHANGED <<session, events>>
          /\ mounted =>
               /\ ~loading' /\ user' = user
               /\ code = "auth/user-not-found" =>
                    error' = "No account found with this email address."
               /\ code = "auth/wrong-password" =>
                    error' = "Incorrect password. Please try again."
               /\ code = "auth/invalid-email" =>
                    error' = "Please enter a valid email address."
               /\ code = "auth/too-many-requests" =>
                    error' = "Too many failed attempts. Please try again later."
               /\ code \in {"other", "nonError"} =>
                    error' \in
                      {"Failed to sign in. Please check your credentials.",
                       "An unexpected error occurred. Please try again."}]_vars
C13_Witness ==
  /\ mounted /\ lastEnd = [kind |-> "signIn", thrown |-> "auth/wrong-password"]
  /\ lastOutcome = "threw" /\ ~loading /\ op = Idle
  /\ error = "Incorrect password. Please try again."

\* C14: deleteAccount with a provider session deletes the profile record,
\* then the provider account, then clears the local state; with no provider
\* session it makes no backend call and leaves user, error and
\* pendingVerification as they are.
C14_DeleteAccount ==
  /\ []((op.kind = "deleteAccount" /\ op.pc = "deleteUser") =>
          ~profiles[op.uid].exists)
  /\ [][/\ (OpEnds("deleteAccount") /\ lastOutcome' = "returned") =>
            /\ op.calls = <<"deleteDoc", "deleteUser">>
            /\ ~profiles'[op.uid].exists /\ op.uid \notin accounts'
            /\ mounted => /\ user' = NoUser /\ error' = NoError
                          /\ ~isPendingVerification' /\ ~loading'
        /\ (op = Idle /\ op'.kind = "deleteAccount") =>
            (session # NoSession /\ op'.uid = session.uid)
        /\ (op = Idle /\ lastEnd'.kind = "deleteAccount") =>
            /\ session = NoSession
            /\ UNCHANGED <<user, error, isPendingVerification, providerVars,
                           events>>]_vars
C14_Witness ==
  /\ mounted /\ lastEnd.kind = "deleteAccount" /\ lastOutcome = "returned"
  /\ accounts = {} /\ ~profiles["a"].exists /\ user = NoUser

\* C15: while isInitialized is false the children are not rendered, so no
\* consumer has called the Session Store.
C15_GateBeforeInitialized ==
  ~isInitialized => (~RenderGate(isInitialized) /\ op = Idle /\ nOps = 0)
C15_Witness ==
  /\ mounted /\ ~isInitialized /\ listener = "armed" /\ cbs # <<>>

\* ------------------------------------------------------ navigation guard
\* The guard has run and decided on the inputs of the current state.
GuardReady == isMounted /\ ~loading

\* C16: the guard issues no redirect and leaves the route alone in every run
\* made while the session is loading or the layout is not yet mounted /
\* initialized, whatever user, isPendingVerification and the route are.
C16_NoRedirectWhileLoading ==
  [][GuardEffect /\ (loading \/ ~isMounted)
       => redirect'.target = NoRedirect /\ segments' = segments]_vars

\* A run made while loading, with the layout mounted, verification pending,
\* no user and a route that every later rule would redirect.
C16_Witness ==
  /\ redirect.ran /\ redirect.target = NoRedirect
  /\ loading /\ isMounted /\ isPendingVerification /\ user = NoUser
  /\ redirect.from = <<"(tabs)", "home">> /\ segments = redirect.from

\* C17: with loading false and verification pending, a run of the guard
\* redirects to the verification screen exactly when the last segment of the
\* current route is not 'verification', whoever the user is.
C17_PendingWins ==
  [][GuardEffect /\ GuardReady /\ isPendingVerification
       => redirect'.target =
            IF LastSegment(segments) # "verification" THEN "/verification"
            ELSE NoRedirect]_vars

\* C18: with loading false and no verification pending, a run of the guard
\* with no user on a route outside the (auth) group, the index route and the
\* empty segment list included, redirects to login.
C18_AbsentGoesToLogin ==
  [][GuardEffect /\ GuardReady /\ ~isPendingVerification /\ user = NoUser
       /\ ~InGroup(segments, "(auth)")
       => redirect'.target = "/login"]_vars

\* C19: with loading false and no verification pending, a run of the guard
\* with a user on a route of the (auth) group redirects to the home of the
\* user's role, and the route becomes that home.
C19_PresentLeavesAuth ==
  [][GuardEffect /\ GuardReady /\ ~isPendingVerification /\ user # NoUser
       /\ InGroup(segments, "(auth)")
       => /\ user.role = "patient"
               => /\ redirect'.target = "/(patient-tabs)/home"
                  /\ segments' = <<"(patient-tabs)", "home">>
          /\ user.role = "therapist"
               => /\ redirect'.target = "/(tabs)/home"
                  /\ segments' = <<"(tabs)", "home">>]_vars

\* A patient was redirected from the login screen to the patient home.
C19_Witness ==
  /\ GuardReady /\ ~isPendingVerification /\ user.role = "patient"
  /\ redirect.ran /\ redirect.from = <<"(auth)", "login">>
  /\ redirect.target = "/(patient-tabs)/home"
  /\ segments = <<"(patient-tabs)", "home">>

\* C20: with loading false and no verification pending, a run of the guard
\* sends a patient inside the therapist group (tabs) to the patient home and
\* a therapist inside the patient group (patient-tabs) to the therapist
\* home; so a run that issues no redirect was made with the user outside the
\* other role's group.
C20_RoleSegregation ==
  [][GuardEffect /\ GuardReady /\ ~isPendingVerification /\ user # NoUser
       => /\ user.role = "patient" /\ InGroup(segments, "(tabs)")
               => /\ redirect'.target = "/(patient-tabs)/home"
                  /\ segments' = <<"(patient-tabs)", "home">>
          /\ user.role = "therapist" /\ InGroup(segments, "(patient-tabs)")
               => /\ redirect'.target = "/(tabs)/home"
                  /\ segments' = <<"(tabs)", "home">>
          /\ redirect'.target = NoRedirect
               => /\ ~(user.role = "patient" /\ InGroup(segments, "(tabs)"))
                  /\ ~(user.role = "therapist"
                         /\ InGroup(segments, "(patient-tabs)"))]_vars

\* A patient inside the therapist group was sent to the patient home.
C20_Witness ==
  /\ GuardReady /\ ~isPendingVerification /\ user.role = "patient"
  /\ redirect.ran /\ redirect.from = <<"(tabs)", "home">>
  /\ redirect.target = "/(patient-tabs)/home"
  /\ segments = <<"(patient-tabs)", "home">>

\* C21: with user and isPendingVerification held fixed, the run of the guard
\* that follows a redirect issues no redirect and leaves the route alone: at
\* most one redirect is issued from any route the user chose, so the second
\* application is stable and no loop of redirects exists.
C21_GuardConverges ==
  /\ [](hops <= 1)
  /\ [][GuardEffect /\ redirect.target # NoRedirect
          => /\ redirect'.target = NoRedirect
             /\ segments' = segments /\ ~effectDue']_vars
  /\ [][GuardEffect /\ redirect'.target # NoRedirect
          => Guard(variant, isMounted, loading, isPendingVerification, user,
                   segments') = NoRedirect]_vars

\* The guard sent an absent user from a tab route to login and its second
\* run, on the login route, issued no redirect.
C21_Witness ==
  /\ GuardReady /\ user = NoUser /\ ~isPendingVerification
  /\ hops = 1 /\ redirect.ran /\ redirect.target = NoRedirect
  /\ redirect.from = <<"(auth)", "login">> /\ segments = redirect.from
  /\ ~effectDue

\* ------------------------------------------------------ notification feed
\* The live queries that have not been unsubscribed.
OpenSubs == {n \in DOMAIN subs : subs[n].state # "closed"}
\* The ids of the unread entries of a mirror.
UnreadIds(ns) == {d \in DocIds : \E i \in DOMAIN ns : ns[i].id = d /\ ~ns[i].read}
\* A snapshot is delivered in this step.
SnapshotDelivered == \E n \in DOMAIN subs : Snapshot(n)

\* C22: a run of the subscription effect with a user id opens exactly one
\* live query, filtered on that id; a run with no user leaves no live query
\* open and the mirror empty.
C22_FeedLifecycle ==
  [][FeedEffect =>
       IF user.id # "none"
       THEN /\ Len(subs') = Len(subs) + 1
            /\ OpenSubs' = {Len(subs')}
            /\ subs'[Len(subs')].uid = user.id
       ELSE /\ OpenSubs' = {}
            /\ notifications' = <<>>]_vars

\* C23: once the subscription effect has run for the current user id, the
\* mirror holds only notifications addressed to that id.
C23_MirrorOfCurrentUser ==
  feedMounted /\ ~FeedEffectDue
    => \A i \in DOMAIN notifications : notifications[i].to = user.id

\* C24: at most one live query is open at any time, every earlier query is
\* closed in the step that opens a new one, and none is open after unmount.
C24_OneSubscription ==
  /\ [](Cardinality(OpenSubs) <= 1)
  /\ [](~feedMounted => OpenSubs = {})
  /\ [][Len(subs') > Len(subs)
          => \A n \in DOMAIN subs : subs'[n].state = "closed"]_vars

\* The query of user a was closed when the query of user b was opened.
C24_Witness ==
  /\ feedMounted /\ user.id = "b" /\ Len(subs) = 2
  /\ subs[1].state = "closed" /\ subs[2].state = "active"
  /\ subs[2].uid = "b" /\ subs[2].seen # <<0>>

\* C25: a delivered snapshot makes the mirror exactly the documents of the
\* query, newest first, each with the read flag of the backend, whatever the
\* mirror held before, and sets loading false; a subscription error leaves
\* the mirror unchanged and sets loading false.
C25_SnapshotReplaces ==
  /\ [][\A n \in DOMAIN subs : Snapshot(n) =>
          /\ {notifications'[i].id : i \in DOMAIN notifications'}
               = {d \in DocIds : store[d].exists /\ store[d].to = subs[n].uid}
          /\ \A i, j \in DOMAIN notifications' :
               i < j => notifications'[i].id > notifications'[j].id
          /\ \A i \in DOMAIN notifications' :
               /\ notifications'[i].read = store[notifications'[i].id].read
               /\ notifications'[i].to = subs[n].uid
          /\ ~feedLoading']_vars
  /\ [][\A n \in DOMAIN subs : SubError(n) =>
          notifications' = notifications /\ ~feedLoading']_vars

\* The second snapshot of user a replaced the first: the older document was
\* marked read in between and a newer one arrived.
C25_Witness ==
  /\ notifications = << [id |-> 2, to |-> "a", read |-> FALSE],
                        [id |-> 1, to |-> "a", read |-> TRUE] >>
  /\ user.id = "a" /\ ~feedLoading /\ mark = NoMark /\ lastMark = NoMark

\* C26: unreadCount is the number of entries of the mirror whose read flag
\* is false.
C26_UnreadCountDerived ==
  unreadCount
    = Cardinality({i \in DOMAIN notifications : notifications[i].read = FALSE})

\* A mirror with one read and one unread entry while markAllAsRead is in
\* flight.
C26_Witness ==
  /\ Len(notifications) = 2 /\ unreadCount = 1
  /\ \E i \in DOMAIN notifications : notifications[i].read
  /\ mark.kind = "markAllAsRead"

\* C27: markAllAsRead on an empty mirror ends with no backend call; on any
\* other mirror it commits one batch holding exactly the unread entries of
\* the mirror, and the commit sets read on exactly those documents or, when
\* it fails, on none.
C27_MarkAllBatch ==
  /\ [][MarkAllAsReadStart =>
          IF Len(notifications) = 0
          THEN /\ mark' = NoMark /\ store' = store
               /\ lastMark'.kind = "markAllAsRead" /\ lastMark'.calls = <<>>
          ELSE /\ mark'.calls = <<"commit">>
               /\ mark'.ids = UnreadIds(notifications)
               /\ \A i \in DOMAIN notifications :
                    notifications[i].read => notifications[i].id \notin mark'.ids
               /\ store' = store]_vars
  /\ [][MarkAllAsReadSettles =>
          /\ lastMark'.calls = <<"commit">> /\ lastMark'.ids = mark.ids
          /\ \A d \in DocIds :
               store'[d] = IF lastMark'.committed /\ d \in mark.ids
                           THEN [store[d] EXCEPT !.read = TRUE]
                           ELSE store[d]]_vars

\* markAllAsRead committed a batch of one document on a mirror with one
\* unread and one read entry.
C27_Witness ==
  /\ lastMark.kind = "markAllAsRead" /\ lastMark.committed
  /\ Len(notifications) = 2 /\ lastMark.ids = {2}
  /\ ~notifications[1].read /\ notifications[1].id = 2
  /\ notifications[2].read
  /\ store[2].read

\* C28 as stated: the snapshot that follows a committed markAllAsRead yields
\* a mirror with no unread entry.
C28_NextSnapshotAllRead ==
  [][SnapshotDelivered /\ lastMark.kind = "markAllAsRead"
       /\ lastMark.committed
       => unreadCount' = 0]_vars

\* C28: in the snapshot that follows a committed markAllAsRead every
\* document of the batch is read; the mirror has no unread entry when the
\* snapshot holds no document that was missing from the mirror at the call.
C28_NextSnapshotMarkedRead ==
  [][SnapshotDelivered /\ lastMark.kind = "markAllAsRead"
       /\ lastMark.committed
       => /\ \A i \in DOMAIN notifications' :
               notifications'[i].id \in lastMark.ids => notifications'[i].read
          /\ (\A i \in DOMAIN notifications' :
                notifications'[i].id \in lastMark.mirror)
               => unreadCount' = 0]_vars

\* The snapshot after the commit holds the marked document, read, and a
\* document created meanwhile, unread.
C28_Witness ==
  /\ lastMark.kind = "delivered" /\ lastMark.ids = {1}
  /\ Len(notifications) = 2 /\ unreadCount = 1
  /\ notifications[2].id = 1 /\ notifications[2].read

\* C29: markAsRead(id) makes the single call updateDoc on document id; when
\* it settles the mirror is as before, no other document has changed, the
\* call returns normally, and a failure is logged and changes no document.
C29_MarkAsRead ==
  /\ [][\A id \in DocIds : MarkAsReadStart(id) =>
          /\ mark'.calls = <<"updateDoc">> /\ mark'.ids = {id}
          /\ notifications' = notifications /\ store' = store]_vars
  /\ [][MarkAsReadSettles =>
          /\ notifications' = notifications
          /\ lastMark'.outcome = "returned"
          /\ lastMark'.calls = <<"updateDoc">>
          /\ \A d \in DocIds :
               store'[d] = IF lastMark'.committed /\ d \in mark.ids
                           THEN [store[d] EXCEPT !.read = TRUE]
                           ELSE store[d]
          /\ ~lastMark'.committed => lastMark'.logged]_vars

\* A failed markAsRead returned normally and left the unread entry alone.
C29_Witness ==
  /\ lastMark.kind = "markAsRead" /\ ~lastMark.committed /\ lastMark.logged
  /\ lastMark.outcome = "returned" /\ lastMark.ids = {1}
  /\ Len(notifications) = 1 /\ ~notifications[1].read /\ ~store[1].read

\* ---------------------------------------------------------- session owner
\* C30: the provider session changes only in a step of a Session Store
\* operation or of the listener callback's forced sign-out.
C30_SessionOwnedByStore ==
  [][session' # session => (op' # op \/ cbs' # cbs)]_vars

\* ------------------------------------------- Session Store, further claims
\* A step of setPendingVerification: the flag changes with no operation in
\* flight.
SetsPending == op = Idle /\ isPendingVerification' # isPendingVerification
\* The listener callback is invoked in this step.
CbInvoked == Len(events') < Len(events)

\* C31: setPendingVerification(b) changes pendingVerification only, leaving
\* user, loading, error and initialized as they are, and the value the
\* listener callback tests when it is invoked is the current
\* pendingVerification.
C31_SetPendingObserved ==
  /\ [][SetsPending => UNCHANGED <<user, loading, error, isInitialized>>]_vars
  /\ [][CbInvoked =>
          ClosureValue(closurePending, isPendingVerification)
            = isPendingVerification]_vars

\* C32: with the session initialized and no user signed in, the loading flag
\* of the NotificationProvider becomes false (so that its children are
\* rendered), unless the provider unmounts or a user appears first.
C32_FeedLoadingEnds ==
  (feedMounted /\ isInitialized /\ user = NoUser) ~>
    (~feedLoading \/ ~feedMounted \/ user # NoUser)

\* signUp for id is in flight and has not yet written the profile record.
SignUpBeforeProfile(id) ==
  op.kind = "signUp" /\ op.uid = id /\ op.pc \in {"createAccount", "setDoc"}

\* C33: while signUp has not yet written the profile record of the account
\* it created, no listener callback has found that record missing (and is
\* about to sign the account out), and none has signed it out.
C33_NoOrphanDuringSignUp ==
  /\ \A i \in DOMAIN cbs :
       cbs[i].pc = "signOut" => ~SignUpBeforeProfile(cbs[i].fu.uid)
  /\ lastCb.path = "orphan" =>
       ~(op.kind = "signUp" /\ op.uid = lastCb.fu.uid)

\* A step of a Session Store operation: it starts, resumes or ends one.
StoreStep == op' # op \/ nOps' # nOps

\* C34: user becomes present, or another user, only in the step that ends a
\* listener callback which found the profile record of its session; no step
\* of signIn, signUp, signOut, deleteAccount or setPendingVerification makes
\* user present, and a signIn or signUp that throws leaves user as it was.
C34_UserOnlyFromListener ==
  /\ [][(user' # user /\ user' # NoUser) =>
          /\ CbEnds /\ lastCb'.path = "profile"
          /\ profiles[lastCb'.fu.uid].exists
          /\ user'.id = lastCb'.fu.uid]_vars
  /\ [][StoreStep => (user' = user \/ user' = NoUser)]_vars
  /\ [][((OpEnds("signIn") \/ OpEnds("signUp")) /\ lastOutcome' = "threw")
          => user' = user]_vars
C34_Witness ==
  /\ mounted /\ user # NoUser /\ op = Idle
  /\ lastEnd.kind \in {"signIn", "signUp"} /\ lastOutcome = "threw"

\* C35: in the step in which signOut returns, or deleteAccount returns after
\* deleting the account of the active session, the Session State of a
\* mounted provider is reset: user absent, error absent, pendingVerification
\* false and loading false.
C35_ResetAfterSuccess ==
  [][((OpEnds("signOut") \/ OpEnds("deleteAccount"))
        /\ lastOutcome' = "returned" /\ mounted) =>
       /\ user' = NoUser /\ error' = NoError
       /\ ~isPendingVerification' /\ ~loading']_vars
C35_Witness ==
  /\ mounted /\ op = Idle /\ lastEnd.kind = "signOut"
  /\ lastOutcome = "returned" /\ nOps = MaxOps
  /\ session = NoSession /\ lastReported # NoSession
  /\ user = NoUser /\ error = NoError /\ ~isPendingVerification /\ ~loading

\* The backend calls of signUp, in the order of the source.
SignUpSteps == <<"createAccount", "setDoc", "sendVerification">>

\* C36: a signUp that throws has made the calls up to the failed one and
\* none after it, the failed call changed nothing at the backend, a message
\* is stored, loading is false, and user and pendingVerification are as they
\* were; it does not return true.
C36_SignUpFailure ==
  [][(OpEnds("signUp") /\ lastOutcome' = "threw") =>
       /\ op.calls = SubSeq(SignUpSteps, 1, Len(op.calls))
       /\ op.calls[Len(op.calls)] = op.pc
       /\ UNCHANGED <<session, accounts, profiles, events>>
       /\ op.pc = "setDoc" => ~profiles'[op.uid].exists
       /\ lastEnd'.thrown \in SignUpErrors
       /\ mounted =>
            /\ error' \in
                 {"This email is already registered. Please use a different email or sign in.",
                  "Password should be at least 6 characters long.",
                  "Failed to sign up. Please try again.",
                  "An unexpected error occurred. Please try again."}
            /\ ~loading' /\ user' = user
            /\ isPendingVerification' = isPendingVerification]_vars
C36_Witness ==
  /\ mounted /\ op = Idle /\ lastEnd = [kind |-> "signUp", thrown |-> "other"]
  /\ lastOutcome = "threw" /\ error = "Failed to sign up. Please try again."
  /\ "b" \in accounts /\ ~profiles["b"].exists /\ ~loading

\* C37: a deleteAccount that throws has stored its message, ends with loading
\* false and leaves user and pendingVerification as they were; when the
\* profile deletion is what failed, the deletion of the provider account was
\* not called; and a provider account is deleted only when its profile
\* record is gone.
C37_DeleteFailure ==
  /\ [][(OpEnds("deleteAccount") /\ lastOutcome' = "threw") =>
          /\ op.pc = "deleteDoc" =>
               (op.calls = <<"deleteDoc">> /\ UNCHANGED profiles)
          /\ UNCHANGED <<accounts, session, events>>
          /\ mounted =>
               /\ error' = "Failed to delete account. Please try again."
               /\ ~loading' /\ user' = user
               /\ isPendingVerification' = isPendingVerification]_vars
  /\ [][\A id \in accounts \ accounts' :
          ~profiles[id].exists /\ ~profiles'[id].exists]_vars
C37_Witness ==
  /\ mounted /\ op = Idle /\ lastEnd.kind = "deleteAccount"
  /\ lastOutcome = "threw" /\ user.id = "a" /\ ~loading
  /\ "a" \in accounts /\ profiles["a"].exists
  /\ error = "Failed to delete account. Please try again."

\* ---------------------------------------------------- registration screen
\* handleRegister calls signUp in this step.
SignUpCalled == Len(register'.calls) > Len(register.calls)
\* The Register button is pressed in this step.
Pressed == register'.presses > register.presses

\* C38: the screen calls signUp only when name, email, password and
\* confirmation are non-empty, the password equals the confirmation and has
\* at least 6 characters, and then with the values typed; a press that does
\* not meet this stores a validation message and calls nothing; the route
\* changes only to the verification screen, and only in the step in which
\* signUp returned true.
C38_RegisterValidates ==
  /\ [][SignUpCalled =>
          /\ Pressed
          /\ register.name # "" /\ register.email # ""
          /\ register.password # "" /\ register.confirmPassword # ""
          /\ register.password = register.confirmPassword
          /\ Len(register.password) >= 6
          /\ register'.calls =
               Append(register.calls,
                      [email |-> register.email,
                       password |-> register.password,
                       name |-> register.name, role |-> register.role])]_vars
  /\ [][(Pressed /\ ~SignUpCalled) =>
          /\ register'.error \in
               {"Please fill in all fields", "Passwords do not match",
                "Password must be at least 6 characters long"}
          /\ register'.pc = "idle" /\ register'.route = register.route
          /\ \/ "" \in {register.name, register.email, register.password,
                        register.confirmPassword}
             \/ register.password # register.confirmPassword
             \/ Len(register.password) < 6]_vars
  /\ [][register'.route # register.route =>
          /\ register'.route = "/verification"
          /\ register.pc = "signUp" /\ register'.success = "true"]_vars
C38_Witness ==
  /\ register.route = "/verification" /\ register.success = "true"
  /\ register.presses = 2 /\ Len(register.calls) = 1
  /\ register.error = NoError /\ ~register.loading

\* ------------------------------------------------------------ app start-up
\* C39: App renders the router only once initializeApp has found all four
\* handles present in a resolved import; when the import is rejected or a
\* handle is missing, the error is set, and once it is set isInitialized is
\* false for good and the router is never rendered.
C39_RouterAfterHandles ==
  /\ [](AppView(app) = "router" =>
          /\ app.pc = "done" /\ app.exported = "yes"
          /\ Missing(app.handles) = {})
  /\ []((app.pc = "done" /\ (app.exported = "threw"
                             \/ Missing(app.handles) # {}))
          => (app.error # NoError /\ ~app.isInitialized))
  /\ [][app.error # NoError =>
          /\ app'.error # NoError /\ ~app'.isInitialized
          /\ AppView(app') # "router"]_vars
C39_Witness ==
  /\ app.pc = "done" /\ app.exported = "threw"
  /\ AppView(app) = "error" /\ ~app.isInitialized
  /\ app.handles.app = "recovery" /\ app.handles.storage = "default"

====
